---- MODULE Spec2Model ----
(***************************************************************************)
(* Model of the Student Document Analyzer (src/app.py, src/auth.py,        *)
(* src/database.py): the Streamlit session state and the handlers that     *)
(* change it, and the line-by-line PDF story builder.                      *)
(*                                                                         *)
(* Execution model.  app.py is the main script of a Streamlit app: every   *)
(* user event (and every st.rerun()) executes the script from its first    *)
(* line, so the class body of SessionManager (DEFAULT_VALUES and its dict  *)
(* displays) is evaluated anew by each script run, while st.session_state  *)
(* keeps, per browser session, the objects stored by earlier runs.  One    *)
(* action of the model is one user event: the script run it triggers and,  *)
(* where the handler ends in st.rerun(), the render run that follows.      *)
(* A process that loads app.py as a module instead evaluates the class     *)
(* body once; which of the two the process does is fixed when it starts.   *)
(*                                                                         *)
(* The database is the login table, which is fixed, and per user the       *)
(* latest row of ui_interactions, which SpecUsage alone follows.           *)
(***************************************************************************)
EXTENDS Integers, Sequences, FiniteSets, TLC

VARIABLES
    session_state,      \* st.session_state of each browser session: key -> value
    heap,               \* the dict objects generated_videos may refer to
    class_videos,       \* the object bound to DEFAULT_VALUES['generated_videos']
                        \* by the latest evaluation of the class body
    reexecuted,         \* TRUE: every script run executes app.py from its first
                        \* line; FALSE: the process has loaded app.py once
    actor,              \* history: the session whose event was handled last
    gen_done,           \* history: per session, the generators that have
                        \* succeeded since the last reset or logout
    gen_again,          \* history: per session, the generators that its latest
                        \* event invoked although they had succeeded before
    retried,            \* history: the collaborator operations, as <<operation,
                        \* item>>, that the latest event attempted more than once
    authenticated,      \* history: per session, the credentials for which
                        \* authenticate_user has returned success since the
                        \* session's last logout, None if it has not
    content,            \* PDF story builder: content_data['content']
    generated_images,   \* PDF story builder: section indices with an image file
    story,              \* PDF story builder: the flowables appended so far
    rpc,                \* PDF story builder: "input" before the call, "done" after
    view_arg,           \* set_view called directly: its latest argument, "-"
                        \* before the first call
    shown,              \* the artifacts the latest script run displayed:
                        \* session key or script level -> the text written
    ui_interactions,    \* database: per user, the latest row of ui_interactions,
                        \* None before the first
    performed,          \* history: the usage actions that have succeeded for the
                        \* document of the latest row, per kind
    usage_tracked,      \* TRUE in the specification that follows the
                        \* ui_interactions table; the others leave it out
    frame               \* the call that a specification follows statement by
                        \* statement: its arguments, locals and position;
                        \* NoFrame where no specification does

session_vars == <<session_state, heap, class_videos, reexecuted, actor, gen_done, gen_again,
                  retried, authenticated>>
render_vars  == <<content, generated_images, story, rpc>>
vars == <<session_state, heap, class_videos, reexecuted, actor, gen_done, gen_again,
          retried, authenticated, content, generated_images, story, rpc, view_arg, shown,
          ui_interactions, performed, usage_tracked, frame>>
usage_vars == <<ui_interactions, performed, usage_tracked>>

-----------------------------------------------------------------------------
(* Python values *)

\* None
None == [none |-> TRUE]

\* {} as a dict value
EmptyDict == [k \in {} |-> None]

\* d[k] = v on a dict value
DictSet(d, k, v) ==
    IF k \in DOMAIN d THEN [d EXCEPT ![k] = v]
    ELSE [x \in (DOMAIN d) \cup {k} |-> IF x = k THEN v ELSE d[x]]

\* No call is followed
NoFrame == [fn |-> "-"]

\* d.update(e) on dict values
DictUpdate(d, e) == [x \in (DOMAIN d) \cup (DOMAIN e) |-> IF x \in DOMAIN e THEN e[x] ELSE d[x]]

-----------------------------------------------------------------------------
(* SessionManager: the session state *)

\* Browser sessions served by the one process
NumSessions == 2

Sessions == 1..NumSessions

\* Dict objects: one per session that holds one, and one for the class body
ObjIds == 0..NumSessions

\* The response text of a collaborator that returns Optional[str]
Text(t) == [text |-> t]

\* Python truth of an Optional[str] result
Truthy(r) == r # None /\ r.text # ""

\* The objects some session refers to
Referenced(all) ==
    {all[s].generated_videos : s \in {x \in Sessions : "generated_videos" \in DOMAIN all[x]}}

\* An object no session refers to
FreshObject(all) == CHOOSE o \in ObjIds \ Referenced(all) :
                        \A p \in ObjIds \ Referenced(all) : o <= p

\* class SessionManager: DEFAULT_VALUES = {..., 'generated_videos': {}, ...}:
\* an evaluation of the dict display yields a new empty dict.  A script run
\* that executes app.py evaluates it; a run in a process that has loaded
\* app.py once finds the class, and the dict, of that one evaluation
ClassBody(cls, hp, all) ==
    IF reexecuted
    THEN LET d == FreshObject(all) IN [obj |-> d, heap |-> [hp EXCEPT ![d] = EmptyDict]]
    ELSE [obj |-> cls, heap |-> hp]

DEFAULT_VALUES(d) ==
    [ analysis_completed     |-> FALSE,
      document_text          |-> "",
      analysis_result        |-> "",
      assessment_questions   |-> None,
      show_doubt_session     |-> FALSE,
      show_assessment        |-> FALSE,
      show_video_script      |-> FALSE,
      show_video_generation  |-> FALSE,
      show_conclusion        |-> FALSE,
      show_personalized_pdf  |-> FALSE,
      video_script           |-> "",
      video_scripts_by_level |-> EmptyDict,
      generated_videos       |-> d,
      conclusion_content     |-> "",
      quiz_performance       |-> None,
      selected_language      |-> "English",
      language_code          |-> "en",
      user_email             |-> "" ]

\* st.session_state[key] = value
SetKey(ss, key, value) == DictSet(ss, key, value)

\* SessionManager.initialize
initialize(ss, D) ==
    IF DOMAIN D \subseteq DOMAIN ss THEN ss
    ELSE [k \in (DOMAIN ss) \cup (DOMAIN D) |-> IF k \in DOMAIN ss THEN ss[k] ELSE D[k]]

reset_keys ==
    { "analysis_completed", "document_text", "analysis_result",
      "assessment_questions", "video_script", "video_scripts_by_level",
      "generated_videos", "conclusion_content", "quiz_performance" }

\* k.startswith('show_') on the keys of DEFAULT_VALUES
StartsWithShow(k) ==
    k \in { "show_doubt_session", "show_assessment", "show_video_script",
            "show_video_generation", "show_conclusion", "show_personalized_pdf" }

show_keys(D) == {k \in DOMAIN D : StartsWithShow(k)}

\* reset_analysis that forgets the show flags
reset_analysis_keep_view(ss, D) ==
    LET rk == reset_keys \cap DOMAIN D IN
    [k \in (DOMAIN ss) \cup rk |-> IF k \in rk THEN D[k] ELSE ss[k]]

\* SessionManager.reset_analysis
reset_analysis(ss, D) ==
    LET rk == reset_keys \cap DOMAIN D
        sk == show_keys(D)
    IN  [k \in (DOMAIN ss) \cup rk \cup sk |->
            IF k \in sk THEN FALSE
            ELSE IF k \in rk THEN D[k]
            ELSE ss[k]]

\* The view names the program passes to set_view, besides ""
NavViews ==
    <<"doubt_session", "assessment", "video_script", "video_generation",
      "conclusion", "personalized_pdf">>

ActionViews == {NavViews[i] : i \in 1..Len(NavViews)}

\* The arguments set_view is called with: a str
ViewNames == ActionViews \cup {"", "bogus"}

\* f'show_{view_name}'
ShowKey(view_name) ==
    CASE view_name = ""                 -> "show_"
      [] view_name = "doubt_session"    -> "show_doubt_session"
      [] view_name = "assessment"       -> "show_assessment"
      [] view_name = "video_script"     -> "show_video_script"
      [] view_name = "video_generation" -> "show_video_generation"
      [] view_name = "conclusion"       -> "show_conclusion"
      [] view_name = "personalized_pdf" -> "show_personalized_pdf"
      [] OTHER                          -> "show_bogus"

\* set_view that raises the key view_name instead of 'show_' + view_name
set_view_misnaming(ss, view_name, D) ==
    LET sk == show_keys(D) IN
    [k \in (DOMAIN ss) \cup sk \cup {view_name} |->
        IF k = view_name THEN TRUE ELSE IF k \in sk THEN FALSE ELSE ss[k]]

\* set_view that only raises the flag of the view
set_view_additive(ss, view_name, D) ==
    LET sk   == show_keys(D)
        show == ShowKey(view_name)
    IN  [k \in (DOMAIN ss) \cup sk |-> IF k = show /\ k \in sk THEN TRUE ELSE ss[k]]

\* SessionManager.set_view
set_view(ss, view_name, D) ==
    LET sk   == show_keys(D)
        show == ShowKey(view_name)
    IN  [k \in (DOMAIN ss) \cup sk |-> IF k \in sk THEN (k = show) ELSE ss[k]]

\* st.session_state.get(key, False)
Flag(ss, key) == IF key \in DOMAIN ss THEN ss[key] ELSE FALSE

\* render_main_content: the view it routes to
RECURSIVE FirstShown(_, _)
FirstShown(ss, i) ==
    IF i > Len(NavViews) THEN "analysis"
    ELSE IF Flag(ss, ShowKey(NavViews[i])) THEN NavViews[i]
    ELSE FirstShown(ss, i + 1)

ActiveView(ss) ==
    IF ~Flag(ss, "logged_in") THEN "login"
    ELSE IF ~ss.analysis_completed THEN "upload"
    ELSE FirstShown(ss, 1)

-----------------------------------------------------------------------------
(* The database *)

\* database.py: the rows of the login table
login_table == { [email |-> "ann@school.edu", password |-> "secret1"],
                 [email |-> "bob@school.edu", password |-> "secret2"] }

\* The users
UserEmails == {row.email : row \in login_table}

\* log_ui_interaction: the counters of the new row, with the defaults of the
\* keyword arguments
NewInteraction(language_used) ==
    [ language_used           |-> language_used,
      doubt_sessions          |-> 0,
      assessments_taken       |-> 0,
      quiz_score              |-> None,
      video_scripts_generated |-> 0,
      pdfs_generated          |-> 0 ]

\* log_ui_interaction: a new row, from then on the latest of the user
log_ui_interaction(db, user_email, language_used) ==
    [db EXCEPT ![user_email] = NewInteraction(language_used)]

\* update_ui_interaction: "if field in [...]"
UpdatableFields ==
    {"doubt_sessions", "assessments_taken", "quiz_score", "video_scripts_generated",
     "pdfs_generated"}

\* update_ui_interaction(user_email, **updates): UPDATE ... SET field = value
\* on the latest row of the user
update_ui_interaction(db, user_email, updates) ==
    IF db[user_email] # None /\ (DOMAIN updates) \cap UpdatableFields # {}
    THEN [db EXCEPT ![user_email] =
             [f \in DOMAIN @ |->
                 IF f \in (DOMAIN updates) \cap UpdatableFields THEN updates[f] ELSE @[f]]]
    ELSE db

\* The kinds of usage action
UsageKinds == {"doubts", "assessments", "video_scripts", "pdfs", "videos"}

NoUsage == [kind \in UsageKinds |-> 0]

-----------------------------------------------------------------------------
(* One script run, as a function on the world it works on *)

\* all: session states; heap, cls: the dict objects; done, again: the history
\* of the acting session's content generators; auth: the credentials it has
\* authenticated with; called, retried: the collaborator operations the
\* event has attempted, and attempted again; page: what the run has displayed
\* db, performed: the ui_interactions table and the history of the usage
World(all, hp, cls, done, again, auth) ==
    [all |-> all, heap |-> hp, cls |-> cls, done |-> done, again |-> again,
     auth |-> auth, called |-> {}, retried |-> {}, page |-> EmptyDict,
     db |-> ui_interactions, performed |-> performed]

Put(w, s, key, value) == [w EXCEPT !.all[s] = SetKey(@, key, value)]

\* A collaborator operation is attempted for an item: one call of the text
\* extraction, of a ContentGenerator method or of create_video
Attempt(w, operation, item) ==
    [w EXCEPT !.retried = IF <<operation, item>> \in w.called
                          THEN @ \cup {<<operation, item>>} ELSE @,
              !.called  = @ \cup {<<operation, item>>}]

\* A content generator is called, for the document of the session
Invoke(w, kind, succeeded) ==
    [Attempt(w, kind, "document")
        EXCEPT !.again = IF kind \in w.done THEN @ \cup {kind} ELSE @,
               !.done  = IF succeeded THEN @ \cup {kind} ELSE @]

\* The handler of session s calls update_ui_interaction(user_email, **updates)
UpdateInteraction(w, s, updates) ==
    [w EXCEPT !.db = update_ui_interaction(@, w.all[s].user_email, updates)]

\* n usage actions of a kind have succeeded
Performed(w, kind, n) == [w EXCEPT !.performed[kind] = @ + n]

\* The analysis is reset, or the session logged out: the history starts again
Cleared(w) == [w EXCEPT !.done = {}, !.again = {}]

\* The module level of app.py, then main() down to SessionManager.initialize():
\* check_authentication stops the run of a session that is not logged in
StartRun(w, s) ==
    LET c  == ClassBody(w.cls, w.heap, w.all)
        ss == IF "logged_in" \in DOMAIN w.all[s] THEN w.all[s]
              ELSE SetKey(w.all[s], "logged_in", FALSE)
    IN  [w EXCEPT !.cls = c.obj,
                  !.heap = c.heap,
                  !.all[s] = IF ss.logged_in THEN initialize(ss, DEFAULT_VALUES(c.obj))
                             ELSE ss]

\* DEFAULT_VALUES as the running script sees it
Defaults(w) == DEFAULT_VALUES(w.cls)

-----------------------------------------------------------------------------
(* Collaborators: what they may return *)

\* ContentGenerator.generate_multi_level_video_scripts
difficulty_levels == <<"easy", "medium", "hard">>

Levels == {difficulty_levels[i] : i \in 1..Len(difficulty_levels)}

RECURSIVE ScriptsLoop(_, _, _)
ScriptsLoop(responses, i, scripts) ==
    IF i > Len(difficulty_levels) THEN scripts
    ELSE LET level == difficulty_levels[i] IN
         ScriptsLoop(responses, i + 1,
                     IF Truthy(responses[level])
                     THEN DictSet(scripts, level, responses[level].text)
                     ELSE scripts)

generate_multi_level_video_scripts(responses) ==
    LET scripts == ScriptsLoop(responses, 1, EmptyDict) IN
    IF DOMAIN scripts # {} THEN scripts ELSE None

\* The Gemini responses to the three script prompts that the model tries
ScriptResponses ==
    { [l \in Levels |-> IF l \in ok THEN Text("script") ELSE None] :
        ok \in {{}, {"easy"}, Levels} }

\* The Gemini responses to one prompt
TextResponses == {None, Text("text one"), Text("text two")}

\* The parsed question sets
QuestionOne == [question |-> "first?", correct_answer |-> "A"]
QuestionTwo == [question |-> "second?", correct_answer |-> "B"]
FullQuiz    == [question1 |-> QuestionOne, question2 |-> QuestionTwo]
PartialQuiz == [question1 |-> QuestionOne]

\* json.loads(clean_json_string(text)): the parsed value, or JSONDecodeError
json_loads(text) ==
    CASE text = "{question1, question2}" -> [ok |-> TRUE, value |-> FullQuiz]
      [] text = "{question1}"            -> [ok |-> TRUE, value |-> PartialQuiz]
      [] text = "null"                   -> [ok |-> TRUE, value |-> None]
      [] OTHER                           -> [ok |-> FALSE, value |-> None]

AssessmentResponses ==
    {None, Text("{question1, question2}"), Text("{question1}"), Text("null"),
     Text("Sorry, no JSON")}

\* Text extraction
ExtractResults == {None, Text("document")}

\* SynthesiaVideoGenerator.create_video: None, or the record built from a 201
create_video(level, created) ==
    IF created
    THEN [video_id |-> "video", status |-> "in_progress", difficulty_level |-> level]
    ELSE None

\* SynthesiaVideoGenerator.get_video_status: None, or the response body
StatusResponses ==
    {None, [id |-> "video", status |-> "complete", download |-> "url"]}

-----------------------------------------------------------------------------
(* The views *)

\* The responses a render run of a view may get
ResponsesFor(view) ==
    CASE view = "assessment"   -> AssessmentResponses
      [] view = "video_script" -> ScriptResponses
      [] view = "conclusion"   -> TextResponses
      [] OTHER                 -> {None}

\* Python truth of a dict-or-None value
TruthyDict(d) == d # None /\ DOMAIN d # {}

\* render_assessment, "Generate questions if not already generated"
render_assessment(w, s, r) ==
    IF w.all[s].assessment_questions = None
    THEN LET w1 == Invoke(w, "assessment", Truthy(r)) IN
         IF Truthy(r)
         THEN LET parsed == json_loads(r.text) IN
              Put(w1, s, "assessment_questions", IF parsed.ok THEN parsed.value ELSE None)
         ELSE w1
    ELSE w

\* render_video_script without the "if not already generated" test
render_video_script_always(w, s, responses) ==
    LET scripts == generate_multi_level_video_scripts(responses)
        w1      == Invoke(w, "video_script", scripts # None)
    IN  IF scripts # None
        THEN LET n == Cardinality(DOMAIN scripts) IN
             Performed(UpdateInteraction(Put(w1, s, "video_scripts_by_level", scripts),
                                         s, [video_scripts_generated |-> n]),
                       "video_scripts", n)
        ELSE w1

\* render_video_script, "Generate video scripts if not already generated"
render_video_script(w, s, responses) ==
    IF ~TruthyDict(w.all[s].video_scripts_by_level)
    THEN LET scripts == generate_multi_level_video_scripts(responses)
             w1      == Invoke(w, "video_script", scripts # None)
         IN  IF scripts # None
             THEN LET n == Cardinality(DOMAIN scripts) IN
                  Performed(UpdateInteraction(Put(w1, s, "video_scripts_by_level", scripts),
                                              s, [video_scripts_generated |-> n]),
                            "video_scripts", n)
             ELSE w1
    ELSE w

\* render_conclusion without the "if not already generated" test
render_conclusion_always(w, s, r) ==
    LET w1 == Invoke(w, "conclusion", Truthy(r)) IN
    IF Truthy(r) THEN Put(w1, s, "conclusion_content", r.text) ELSE w1

\* render_conclusion that asks for the conclusion again when the call failed
render_conclusion_retrying(w, s, r) ==
    IF w.all[s].conclusion_content = ""
    THEN LET w1 == Invoke(w, "conclusion", Truthy(r)) IN
         IF Truthy(r) THEN Put(w1, s, "conclusion_content", r.text)
         ELSE Invoke(w1, "conclusion", FALSE)
    ELSE w

\* render_conclusion, "Generate conclusion if not already generated"
render_conclusion(w, s, r) ==
    IF w.all[s].conclusion_content = ""
    THEN LET w1 == Invoke(w, "conclusion", Truthy(r)) IN
         IF Truthy(r) THEN Put(w1, s, "conclusion_content", r.text) ELSE w1
    ELSE w

\* render_main_content of a run without a widget event
render_main_content(w, s, r) ==
    LET view == ActiveView(w.all[s]) IN
    CASE view = "assessment"   -> render_assessment(w, s, r)
      [] view = "video_script" -> render_video_script(w, s, r)
      [] view = "conclusion"   -> render_conclusion(w, s, r)
      [] OTHER                 -> w

\* A whole script run without a widget event, as st.rerun() starts one, once
\* the run has come to render_main_content
RenderRun(w, s, r) ==
    IF w.all[s].logged_in THEN render_main_content(w, s, r) ELSE w

\* The Gemini responses to a translation prompt
TranslationResponses == {None, Text("translated")}

\* LanguageManager.translate_content; response: what Gemini returns if asked
translate_content(text, target_language, response) ==
    IF target_language = "en" \/ text = "" THEN text
    ELSE IF Truthy(response) THEN response.text ELSE text

\* display_translated_content
display_translated_content(ss, text, response) ==
    IF ss.language_code # "en" THEN translate_content(text, ss.language_code, response)
    ELSE text

\* The stored artifacts that the view of a run writes with
\* st.markdown(display_translated_content(...)): the analysis in
\* render_analysis_results, each stored script level in render_video_script,
\* the conclusion, if there is one, in render_conclusion
Displayed(ss) ==
    LET view == ActiveView(ss) IN
    CASE view = "analysis"     -> {"analysis_result"}
      [] view = "video_script" -> IF TruthyDict(ss.video_scripts_by_level)
                                  THEN DOMAIN ss.video_scripts_by_level ELSE {}
      [] view = "conclusion"   -> IF ss.conclusion_content # "" THEN {"conclusion_content"} ELSE {}
      [] OTHER                 -> {}

\* The stored text of a displayed artifact
Stored(ss, item) ==
    IF item \in Levels THEN ss.video_scripts_by_level[item] ELSE ss[item]

\* The responses the translations of a run may get, one per displayed artifact
TranslationsFor(ss) ==
    IF Displayed(ss) # {} /\ ss.language_code # "en"
    THEN [Displayed(ss) -> TranslationResponses]
    ELSE {[item \in Displayed(ss) |-> None]}

\* The display of the stored artifacts that also keeps each translation
display_artifacts_storing(w, s, tr) ==
    LET ss   == w.all[s]
        page == [item \in Displayed(ss) |->
                    display_translated_content(ss, Stored(ss, item), tr[item])]
        kept == IF "conclusion_content" \in DOMAIN page
                THEN Put(w, s, "conclusion_content", page["conclusion_content"])
                ELSE w
    IN  [kept EXCEPT !.page = page]

\* The display of the stored artifacts by the view of a run
display_artifacts(w, s, tr) ==
    LET ss == w.all[s] IN
    [w EXCEPT !.page = [item \in Displayed(ss) |->
                           display_translated_content(ss, Stored(ss, item), tr[item])]]

-----------------------------------------------------------------------------
(* Events: one action per user event *)

InitSessions ==
    /\ session_state = [s \in Sessions |-> [logged_in |-> FALSE]]
    /\ heap = [o \in ObjIds |-> EmptyDict]
    /\ class_videos = 0
    /\ reexecuted \in BOOLEAN
    /\ actor = 0
    /\ gen_done = [s \in Sessions |-> {}]
    /\ gen_again = [s \in Sessions |-> {}]
    /\ retried = {}
    /\ authenticated = [s \in Sessions |-> None]
    /\ shown = EmptyDict
    /\ ui_interactions = [email \in UserEmails |-> None]
    /\ performed = NoUsage

\* The session that owns a referenced object: the first that refers to it
Owner(all, o) ==
    CHOOSE s \in Sessions :
        /\ "generated_videos" \in DOMAIN all[s] /\ all[s].generated_videos = o
        /\ \A t \in Sessions :
              ("generated_videos" \in DOMAIN all[t] /\ all[t].generated_videos = o) => s <= t

\* Garbage collection at the end of an event: dict objects that nothing refers
\* to are dropped, an object a session refers to takes the number of its
\* owner, and the class body's object number 0 unless a session refers to it
Collect(w) ==
    LET ref == Referenced(w.all) IN
    [ all  |-> [s \in Sessions |->
                  IF "generated_videos" \in DOMAIN w.all[s]
                  THEN SetKey(w.all[s], "generated_videos",
                              Owner(w.all, w.all[s].generated_videos))
                  ELSE w.all[s]],
      heap |-> [o \in ObjIds |->
                  IF o = 0 THEN (IF w.cls \in ref THEN EmptyDict ELSE w.heap[w.cls])
                  ELSE IF \E p \in ref : Owner(w.all, p) = o
                       THEN w.heap[CHOOSE p \in ref : Owner(w.all, p) = o]
                       ELSE EmptyDict],
      cls  |-> IF w.cls \in ref THEN Owner(w.all, w.cls) ELSE 0 ]

\* The event of session s is over: wx is what its script runs have left when
\* the last of them comes to display the artifacts of its view
Commit(wx, s) ==
    \E tr \in TranslationsFor(wx.all[s]) :
      \E w \in {display_artifacts(wx, s, tr)} : \E c \in {Collect(w)} :
        /\ session_state' = c.all
        /\ heap' = c.heap
        /\ class_videos' = c.cls
        /\ actor' = s
        /\ gen_done' = [gen_done EXCEPT ![s] = w.done]
        /\ gen_again' = [gen_again EXCEPT ![s] = w.again]
        /\ retried' = w.retried
        /\ authenticated' = [authenticated EXCEPT ![s] = w.auth]
        /\ shown' = w.page
        /\ ui_interactions' = IF usage_tracked THEN w.db ELSE ui_interactions
        /\ performed' = IF usage_tracked THEN w.performed ELSE performed
        /\ UNCHANGED <<reexecuted, render_vars, view_arg, usage_tracked, frame>>

\* The world before an event of session s
Now(s) == World(session_state, heap, class_videos, gen_done[s], {}, authenticated[s])

LoggedIn(s) == Flag(session_state[s], "logged_in")

View(s) == ActiveView(session_state[s])

\* The event's handler has called st.rerun(): the render run follows
Rerun(w, s) ==
    \E w1 \in {StartRun(w, s)} :
        \E r \in ResponsesFor(ActiveView(w1.all[s])) : Commit(RenderRun(w1, s, r), s)

\* validate_email
validate_email(email) == email \in {"ann@school.edu", "bob@school.edu", "eve@school.edu"}

\* authenticate_user without the comparison of the passwords
authenticate_user_by_email(email, password) ==
    \E row \in login_table : row.email = email

\* authenticate_user
authenticate_user(email, password) ==
    \E row \in login_table : row.email = email /\ row.password = password

\* show_login_page, the login form
Login(s, email, password) ==
    /\ ~LoggedIn(s)
    /\ LET w1 == StartRun(Now(s), s) IN
       IF email = "" \/ password = "" \/ ~validate_email(email)
          \/ ~authenticate_user(email, password)
       THEN Commit(w1, s)
       ELSE Rerun([Put(Put(w1, s, "logged_in", TRUE), s, "user_email", email)
                      EXCEPT !.auth = [email |-> email, password |-> password]], s)

\* show_logout_option: every key is deleted
Logout(s) ==
    /\ LoggedIn(s)
    /\ LET w1 == StartRun(Now(s), s)
           w2 == Cleared([w1 EXCEPT !.all[s] = EmptyDict, !.auth = None])
       IN  Rerun(w2, s)

\* _render_navigation_buttons, a view button
NavClick(s, view_key) ==
    /\ LoggedIn(s)
    /\ session_state[s].analysis_completed
    /\ LET w1 == StartRun(Now(s), s)
           w2 == [w1 EXCEPT !.all[s] =
                     set_view(@, IF view_key = "analysis" THEN "" ELSE view_key, Defaults(w1))]
       IN  Rerun(w2, s)

\* _render_navigation_buttons, "New Analysis"
NewAnalysis(s) ==
    /\ LoggedIn(s)
    /\ session_state[s].analysis_completed
    /\ LET w1 == StartRun(Now(s), s)
           w2 == Cleared([w1 EXCEPT !.all[s] = reset_analysis(@, Defaults(w1))])
       IN  Rerun(w2, s)

\* _process_document that marks the analysis completed once the text is there
process_document_marking_early(w, s, text, analysis, responses) ==
    IF Truthy(text)
    THEN LET w0 == Attempt(w, "extract_text", "document")
             w1 == Invoke(Put(Put(w0, s, "document_text", text.text),
                              s, "analysis_completed", TRUE),
                          "analysis", Truthy(analysis)) IN
         IF Truthy(analysis) THEN Put(w1, s, "analysis_result", analysis.text) ELSE w1
    ELSE Attempt(w, "extract_text", "document")

\* _process_document without the "if analysis:" test: what analyze_document
\* returned, nothing included, is stored as the analysis
process_document_unchecked(w, s, text, analysis, responses) ==
    IF Truthy(text)
    THEN LET w0 == Attempt(w, "extract_text", "document")
             w1 == Invoke(Put(w0, s, "document_text", text.text), "analysis", Truthy(analysis))
         IN  Put(Put(w1, s, "analysis_result", IF Truthy(analysis) THEN analysis.text ELSE ""),
                 s, "analysis_completed", TRUE)
    ELSE Attempt(w, "extract_text", "document")

\* UIComponents._process_document
process_document(w, s, text, analysis, responses) ==
    IF Truthy(text)
    THEN LET w0 == Attempt(w, "extract_text", "document")
             w1 == Invoke(Put(w0, s, "document_text", text.text), "analysis", Truthy(analysis)) IN
         IF Truthy(analysis)
         THEN LET w2 == Put(Put(w1, s, "analysis_result", analysis.text),
                            s, "analysis_completed", TRUE)
                  scripts == generate_multi_level_video_scripts(responses)
                  w3 == Invoke(w2, "video_script", scripts # None)
                  w4 == IF scripts # None THEN Put(w3, s, "video_scripts_by_level", scripts)
                        ELSE w3
              IN  [w4 EXCEPT !.db = log_ui_interaction(@, w.all[s].user_email,
                                                       w.all[s].selected_language),
                             !.performed = NoUsage]
         ELSE w1
    ELSE Attempt(w, "extract_text", "document")

\* render_file_upload, the analysis button
ProcessDocument(s, text, analysis, responses) ==
    /\ View(s) = "upload"
    /\ LET w1 == StartRun(Now(s), s)
           w2 == process_document(w1, s, text, analysis, responses)
       IN  IF w2.all[s].analysis_completed THEN Rerun(w2, s) ELSE Commit(w2, s)

\* render_analysis_results, the three buttons under the analysis
AnalysisButton(s, view_key) ==
    /\ View(s) = "analysis"
    /\ LET w1 == StartRun(Now(s), s)
           w2 == [w1 EXCEPT !.all[s] = set_view(@, view_key, Defaults(w1))]
       IN  Rerun(w2, s)

\* render_video_script, "Generate Videos from Scripts"
OpenVideoGeneration(s) ==
    /\ View(s) = "video_script"
    /\ TruthyDict(session_state[s].video_scripts_by_level)
    /\ LET w1 == StartRun(Now(s), s)
           w2 == [w1 EXCEPT !.all[s] = set_view(@, "video_generation", Defaults(w1))]
       IN  Rerun(w2, s)

\* render_video_generation, "Go to Video Scripts"
GoToVideoScripts(s) ==
    /\ View(s) = "video_generation"
    /\ ~TruthyDict(session_state[s].video_scripts_by_level)
    /\ LET w1 == StartRun(Now(s), s)
           w2 == [w1 EXCEPT !.all[s] = set_view(@, "video_script", Defaults(w1))]
       IN  Rerun(w2, s)

\* _generate_synthesia_videos without the "if video_result:" test
RECURSIVE VideosLoopUnchecked(_, _, _, _, _)
VideosLoopUnchecked(w, s, selected, created, i) ==
    IF i > Len(difficulty_levels) THEN w
    ELSE LET level == difficulty_levels[i]
             video_result == create_video(level, level \in created)
         IN  IF level \in selected
             THEN VideosLoopUnchecked(
                      Performed(
                          UpdateInteraction(
                              [Attempt(w, "create_video", level)
                                  EXCEPT !.heap[w.all[s].generated_videos] =
                                            DictSet(@, level, video_result)],
                              s, [videos_generated |-> 1]),
                          "videos", 1),
                      s, selected, created, i + 1)
             ELSE VideosLoopUnchecked(w, s, selected, created, i + 1)

\* _generate_synthesia_videos, the loop over the selected levels; created: the
\* levels whose creation Synthesia answers with 201.  ('generated_videos' is in
\* the session state of every logged-in session: initialize has put it there.)
RECURSIVE VideosLoop(_, _, _, _, _)
VideosLoop(w, s, selected, created, i) ==
    IF i > Len(difficulty_levels) THEN w
    ELSE LET level == difficulty_levels[i]
             video_result == create_video(level, level \in created)
         IN  IF level \in selected
             THEN LET w1 == Attempt(w, "create_video", level) IN
                  IF video_result # None
                  THEN VideosLoop(
                           Performed(
                               UpdateInteraction(
                                   [w1 EXCEPT !.heap[w.all[s].generated_videos] =
                                                 DictSet(@, level, video_result)],
                                   s, [videos_generated |-> 1]),
                               "videos", 1),
                           s, selected, created, i + 1)
                  ELSE VideosLoop(w1, s, selected, created, i + 1)
             ELSE VideosLoop(w, s, selected, created, i + 1)

\* render_video_generation, "Generate Selected Videos"
GenerateVideos(s, selected, created) ==
    /\ View(s) = "video_generation"
    /\ TruthyDict(session_state[s].video_scripts_by_level)
    /\ selected # {}
    /\ selected \subseteq DOMAIN session_state[s].video_scripts_by_level
    /\ created \subseteq selected
    /\ Commit(VideosLoop(StartRun(Now(s), s), s, selected, created, 1), s)

\* _display_video_status, "Check Status"
CheckStatus(s, level, current_status) ==
    /\ View(s) = "video_generation"
    /\ TruthyDict(session_state[s].video_scripts_by_level)
    /\ level \in DOMAIN heap[session_state[s].generated_videos]
    /\ LET w1 == StartRun(Now(s), s) IN
       IF current_status # None
       THEN Rerun([w1 EXCEPT !.heap[w1.all[s].generated_videos][level] =
                                DictUpdate(@, current_status)], s)
       ELSE Commit(w1, s)

\* _process_assessment_results that calls a performance good above 50 percent
quiz_record_above_half(score) ==
    LET total == 2
        percentage == (score * 100) \div total
    IN  [ score |-> score, total |-> total, percentage |-> percentage,
          level |-> IF percentage > 50 THEN "Good" ELSE "Needs Improvement" ]

\* _process_assessment_results: the stored record
quiz_record(score) ==
    LET total == 2
        percentage == (score * 100) \div total
    IN  [ score |-> score, total |-> total, percentage |-> percentage,
          level |-> IF percentage >= 50 THEN "Good" ELSE "Needs Improvement" ]

\* _process_assessment_results: f"{score}/{total} ({percentage:.0f}%)"
quiz_score(score) ==
    [score |-> score, total |-> 2, percent |-> (score * 100) \div 2]

\* _process_assessment_results(answers) on the stored questions: the lookup of
\* question1 or question2 in a set that lacks it raises KeyError, before
\* anything is stored
process_assessment_results(questions, answers) ==
    IF {"question1", "question2"} \subseteq DOMAIN questions
    THEN LET score == (IF answers["q1"] = questions.question1.correct_answer THEN 1 ELSE 0)
                    + (IF answers["q2"] = questions.question2.correct_answer THEN 1 ELSE 0)
         IN  [raised |-> FALSE, score |-> score]
    ELSE [raised |-> TRUE, score |-> 0]

\* render_assessment, the submitted form; answers: question key -> option.  A
\* question set without question1 or question2 raises KeyError, which main's
\* caller reports.
SubmitAssessment(s, answers) ==
    /\ View(s) = "assessment"
    /\ TruthyDict(session_state[s].assessment_questions)
    /\ LET w1 == StartRun(Now(s), s)
           questions == w1.all[s].assessment_questions
           results == process_assessment_results(questions, answers)
       IN  IF ~results.raised
           THEN LET score == results.score
                    w2 == Put(w1, s, "quiz_performance", quiz_record(score))
                    w3 == UpdateInteraction(w2, s, [assessments_taken |-> 1,
                                                    quiz_score |-> quiz_score(score)])
                IN  Commit(Performed(w3, "assessments", 1), s)
           ELSE Commit(w1, s)

\* render_personalized_pdf, "Generate Personalized PDF with Images"
GeneratePdf(s, r) ==
    /\ View(s) = "personalized_pdf"
    /\ LET w1 == Invoke(StartRun(Now(s), s), "personalized_pdf", Truthy(r)) IN
       IF Truthy(r)
       THEN Commit(Performed(UpdateInteraction(w1, s, [pdfs_generated |-> 1]), "pdfs", 1), s)
       ELSE Commit(w1, s)

\* render_doubt_session, "Get Answer" with a question; answer: what
\* answer_doubt returns
AskDoubt(s, answer) ==
    /\ View(s) = "doubt_session"
    /\ LET w1 == Attempt(StartRun(Now(s), s), "answer_doubt", "question") IN
       IF Truthy(answer)
       THEN Commit(Performed(UpdateInteraction(w1, s, [doubt_sessions |-> 1]), "doubts", 1), s)
       ELSE Commit(w1, s)

\* A widget event that stores nothing: the script runs again and renders the
\* active view
Rerender(s) ==
    /\ LoggedIn(s)
    /\ Rerun(Now(s), s)

Emails    == {"ann@school.edu", "eve@school.edu", ""}
Passwords == {"secret1", "wrong"}
Answers   == [{"q1", "q2"} -> {"A", "B"}]

\* The checkbox selections the model tries
SelectionsTried == {{"easy"}, {"easy", "medium"}}

SessionNext(s) ==
    \/ \E email \in Emails, password \in Passwords : Login(s, email, password)
    \/ Logout(s)
    \/ \E view_key \in ActionViews \cup {"analysis"} :
          NavClick(s, view_key)
    \/ NewAnalysis(s)
    \/ \E text \in ExtractResults, analysis \in TextResponses, responses \in ScriptResponses :
          ProcessDocument(s, text, analysis, responses)
    \/ \E view_key \in {"doubt_session", "assessment", "video_script"} :
          AnalysisButton(s, view_key)
    \/ OpenVideoGeneration(s)
    \/ GoToVideoScripts(s)
    \/ \E selected \in SelectionsTried, created \in SUBSET Levels :
          GenerateVideos(s, selected, created)
    \/ \E level \in Levels, current_status \in StatusResponses :
          CheckStatus(s, level, current_status)
    \/ \E answers \in Answers : SubmitAssessment(s, answers)
    \/ \E r \in TextResponses : GeneratePdf(s, r)
    \/ \E answer \in TextResponses : AskDoubt(s, answer)
    \/ Rerender(s)

RenderIdle ==
    /\ content = <<>>
    /\ generated_images = {}
    /\ story = <<>>
    /\ rpc = "idle"

Init ==
    /\ InitSessions
    /\ RenderIdle
    /\ view_arg = "-"
    /\ usage_tracked = FALSE
    /\ frame = NoFrame

\* One browser session
Next == SessionNext(1)

Spec == Init /\ [][Next]_vars

-----------------------------------------------------------------------------
(* Specification of several browser sessions served by one process *)

\* The responses of a run in which the "easy" script alone is generated
EasyScript == [l \in Levels |-> IF l = "easy" THEN Text("script") ELSE None]

StatusComplete == [id |-> "video", status |-> "complete", download |-> "url"]

MultiNext(s) ==
    \/ Login(s, "ann@school.edu", "secret1")
    \/ Logout(s)
    \/ ProcessDocument(s, Text("document"), Text("text one"), EasyScript)
    \/ NavClick(s, "video_generation")
    \/ GenerateVideos(s, {"easy"}, {"easy"})
    \/ CheckStatus(s, "easy", StatusComplete)
    \/ NewAnalysis(s)

NextMulti == \E s \in Sessions : MultiNext(s)

SpecMulti == Init /\ [][NextMulti]_vars

-----------------------------------------------------------------------------
(* Specification of SessionManager.set_view called on an analysed session *)

SUPPORTED_LANGUAGES ==
    [English |-> "en", Telugu |-> "te", Kannada |-> "kn", Hindi |-> "hi"]

\* The state of a session that has logged in, analysed a document, chosen a
\* language and may have opened the conclusion
AnalysedSession(language, conclusion) ==
    LET s0 == initialize([logged_in |-> TRUE, user_email |-> "ann@school.edu"],
                         DEFAULT_VALUES(1))
    IN  [s0 EXCEPT !.document_text = "document",
                   !.analysis_result = "text one",
                   !.analysis_completed = TRUE,
                   !.selected_language = language,
                   !.language_code = SUPPORTED_LANGUAGES[language],
                   !.conclusion_content = conclusion]

InitSetView ==
    /\ \E language \in DOMAIN SUPPORTED_LANGUAGES, conclusion \in {"", "text one", "text two"},
          view \in ActionViews \cup {""} :
          /\ session_state =
                [s \in Sessions |->
                    IF s = 1
                    THEN set_view(AnalysedSession(language, conclusion), view, DEFAULT_VALUES(0))
                    ELSE [logged_in |-> FALSE]]
          /\ gen_done =
                [s \in Sessions |->
                    IF s = 1
                    THEN {"analysis"} \cup (IF conclusion = "" THEN {} ELSE {"conclusion"})
                    ELSE {}]
    /\ heap = [o \in ObjIds |-> EmptyDict]
    /\ class_videos = 0
    /\ reexecuted \in BOOLEAN
    /\ actor = 1
    /\ gen_again = [s \in Sessions |-> {}]
    /\ retried = {}
    /\ authenticated =
          [s \in Sessions |->
              IF s = 1 THEN [email |-> "ann@school.edu", password |-> "secret1"] ELSE None]
    /\ shown = EmptyDict
    /\ ui_interactions = [email \in UserEmails |-> None]
    /\ performed = NoUsage
    /\ usage_tracked = FALSE
    /\ frame = NoFrame
    /\ RenderIdle
    /\ view_arg = "-"

\* SessionManager.set_view(view_name) by session 1
CallSetView(view_name) ==
    /\ session_state' = [session_state EXCEPT ![1] =
                            set_view(@, view_name, DEFAULT_VALUES(class_videos))]
    /\ view_arg' = view_name
    /\ UNCHANGED <<heap, class_videos, reexecuted, actor, gen_done, gen_again, retried,
                   authenticated, render_vars, shown, usage_vars, frame>>

NextSetView == \E view_name \in ViewNames : CallSetView(view_name)

SpecSetView == InitSetView /\ [][NextSetView]_vars

-----------------------------------------------------------------------------
(* Specification of a session that reads its artifacts in several languages *)

\* render_sidebar, the language selectbox: "Update session state if language
\* changed"
ChangeLanguage(s, language) ==
    /\ LoggedIn(s)
    /\ language # session_state[s].selected_language
    /\ LET w1 == StartRun(Now(s), s)
           w2 == Put(Put(w1, s, "selected_language", language),
                     s, "language_code", SUPPORTED_LANGUAGES[language])
       IN  Rerun(w2, s)

\* The languages the model selects
LanguagesTried == {"English", "Hindi", "Telugu"}

LanguageNext(s) ==
    \/ Login(s, "ann@school.edu", "secret1")
    \/ \E responses \in {EasyScript, [l \in Levels |-> None]} :
          ProcessDocument(s, Text("document"), Text("text one"), responses)
    \/ \E view_key \in {"analysis", "video_script", "conclusion", "assessment"} :
          NavClick(s, view_key)
    \/ \E language \in LanguagesTried : ChangeLanguage(s, language)
    \/ NewAnalysis(s)
    \/ Rerender(s)

NextLanguage == LanguageNext(1)

SpecLanguage == Init /\ [][NextLanguage]_vars

-----------------------------------------------------------------------------
(* Specification of a session and the ui_interactions table *)

\* The usage actions that the model lets a session perform on one document
MaxActions == 2

\* The session may perform another usage action
UsageRoom ==
    performed["doubts"] + performed["assessments"] + performed["pdfs"] + performed["videos"]
        < MaxActions

InitUsage ==
    /\ InitSessions
    /\ RenderIdle
    /\ view_arg = "-"
    /\ usage_tracked = TRUE
    /\ frame = NoFrame

UsageNext(s) ==
    \/ Login(s, "ann@school.edu", "secret1")
    \/ \E responses \in {EasyScript, [l \in Levels |-> None]} :
          ProcessDocument(s, Text("document"), Text("text one"), responses)
    \/ \E view_key \in ActionViews \ {"conclusion"} : NavClick(s, view_key)
    \/ UsageRoom /\ \E answer \in {None, Text("text one")} : AskDoubt(s, answer)
    \/ UsageRoom /\ SubmitAssessment(s, [q \in {"q1", "q2"} |-> "A"])
    \/ UsageRoom /\ \E created \in {{}, {"easy"}} : GenerateVideos(s, {"easy"}, created)
    \/ UsageRoom /\ \E r \in {None, Text("text one")} : GeneratePdf(s, r)
    \/ NewAnalysis(s)

NextUsage == UsageNext(1)

SpecUsage == InitUsage /\ [][NextUsage]_vars

-----------------------------------------------------------------------------
(* Specification of one call of generate_multi_level_video_scripts *)

\* What generate_content may return for one level: None (an error or no
\* response), the empty text, a script
LevelResponses == {None, Text(""), Text("script")}

\* The variables every specification of a single call leaves alone
InitQuiet ==
    /\ InitSessions
    /\ reexecuted
    /\ RenderIdle
    /\ view_arg = "-"
    /\ usage_tracked = FALSE

UNCHANGED_quiet == UNCHANGED <<session_vars, render_vars, view_arg, shown, usage_vars>>

\* scripts = {} and the loop before its first level
InitScripts ==
    /\ InitQuiet
    /\ \E responses \in [Levels -> LevelResponses] :
          frame = [fn |-> "generate_multi_level_video_scripts", responses |-> responses,
                   i |-> 1, scripts |-> EmptyDict, attempted |-> <<>>, returned |-> FALSE,
                   result |-> None]

\* The loop body that leaves the loop when a level fails
scripts_iteration_breaking(f) ==
    LET level == difficulty_levels[f.i] IN
    IF Truthy(f.responses[level])
    THEN [f EXCEPT !.attempted = Append(@, level),
                   !.scripts = DictSet(@, level, f.responses[level].text),
                   !.i = @ + 1]
    ELSE [f EXCEPT !.attempted = Append(@, level), !.i = Len(difficulty_levels) + 1]

\* for level, instruction in difficulty_levels.items(): one iteration
scripts_iteration(f) ==
    LET level == difficulty_levels[f.i] IN
    [f EXCEPT !.attempted = Append(@, level),
              !.scripts = IF Truthy(f.responses[level])
                          THEN DictSet(@, level, f.responses[level].text) ELSE @,
              !.i = @ + 1]

ScriptsIterate ==
    /\ ~frame.returned
    /\ frame.i <= Len(difficulty_levels)
    /\ frame' = scripts_iteration(frame)
    /\ UNCHANGED_quiet

\* return scripts if scripts else None
ScriptsReturn ==
    /\ ~frame.returned
    /\ frame.i > Len(difficulty_levels)
    /\ frame' = [frame EXCEPT !.returned = TRUE,
                              !.result = IF DOMAIN frame.scripts # {} THEN frame.scripts
                                         ELSE None]
    /\ UNCHANGED_quiet

NextScripts == ScriptsIterate \/ ScriptsReturn

SpecScripts == InitScripts /\ [][NextScripts]_vars

-----------------------------------------------------------------------------
(* Specification of one submission of the assessment form *)

\* The parsed question sets for which render_assessment displays the form: the
\* non-empty ones, with question1, question2 or both
QuestionSets ==
    LET Options   == {"A", "B", "C"}
        Questions == [question : {"?"}, correct_answer : Options]
    IN  UNION {[keys -> Questions] : keys \in (SUBSET {"question1", "question2"}) \ {{}}}

\* The form is displayed with one radio per question of the stored set, and
\* an option is selected in each
InitAssessment ==
    /\ InitQuiet
    /\ \E questions \in QuestionSets :
          \E answers \in [{IF q = "question1" THEN "q1" ELSE "q2" : q \in DOMAIN questions}
                            -> {"A", "B", "C"}] :
              frame = [fn |-> "render_assessment", assessment_questions |-> questions,
                       answers |-> answers, submitted |-> FALSE, raised |-> FALSE,
                       quiz_performance |-> None]

\* "Submit Assessment"
SubmitForm ==
    /\ ~frame.submitted
    /\ LET results == process_assessment_results(frame.assessment_questions, frame.answers) IN
       frame' = [frame EXCEPT !.submitted = TRUE,
                              !.raised = results.raised,
                              !.quiz_performance = IF results.raised THEN @
                                                   ELSE quiz_record(results.score)]
    /\ UNCHANGED_quiet

SpecAssessment == InitAssessment /\ [][SubmitForm]_vars

-----------------------------------------------------------------------------
(* Specification of concurrent calls of authenticate_user, one per session *)

\* Each session has submitted the login form: its call has its connection and
\* has not yet read the table, whose counters are 0
InitLogin ==
    /\ InitQuiet
    /\ \E inputs \in [Sessions -> [email : {"ann@school.edu", "bob@school.edu", "eve@school.edu"},
                                   password : {"secret1", "wrong"}]] :
          frame = [fn |-> "authenticate_user",
                   no_of_time_logged_in |-> [email \in UserEmails |-> 0],
                   calls |-> [s \in Sessions |->
                                [pc |-> "select", email |-> inputs[s].email,
                                 password |-> inputs[s].password, stored_password |-> "",
                                 login_count |-> 0, result |-> "-"]]]

\* SELECT email, password, no_of_time_logged_in FROM login WHERE email = %s,
\* and "if not user_data"
SelectUser(s) ==
    LET call == frame.calls[s] IN
    /\ call.pc = "select"
    /\ frame' = [frame EXCEPT !.calls[s] =
                    IF \E row \in login_table : row.email = call.email
                    THEN LET row == CHOOSE r \in login_table : r.email = call.email IN
                         [call EXCEPT !.pc = "fetched",
                                      !.stored_password = row.password,
                                      !.login_count = frame.no_of_time_logged_in[call.email]]
                    ELSE [call EXCEPT !.pc = "returned", !.result = "Email not found"]]
    /\ UNCHANGED_quiet

\* "if password == stored_password": UPDATE login SET no_of_time_logged_in =
\* login_count + 1, with the count that the SELECT has read, and commit
UpdateLogin(s) ==
    LET call == frame.calls[s] IN
    /\ call.pc = "fetched"
    /\ frame' = IF call.password = call.stored_password
                THEN [frame EXCEPT !.no_of_time_logged_in[call.email] = call.login_count + 1,
                                   !.calls[s].pc = "returned",
                                   !.calls[s].result = "Login successful"]
                ELSE [frame EXCEPT !.calls[s].pc = "returned",
                                   !.calls[s].result = "Invalid password"]
    /\ UNCHANGED_quiet

NextLogin == \E s \in Sessions : SelectUser(s) \/ UpdateLogin(s)

SpecLogin == InitLogin /\ [][NextLogin]_vars

-----------------------------------------------------------------------------
(* Specification of one script run of the upload view with a file chosen *)

MAX_FILE_SIZE == 10 * 1024 * 1024

\* str.lower() on the letters
lower(s) ==
    LET upper == <<"A", "B", "C", "D", "E", "F", "G", "H", "I", "J", "K", "L", "M",
                    "N", "O", "P", "Q", "R", "S", "T", "U", "V", "W", "X", "Y", "Z">>
        small == <<"a", "b", "c", "d", "e", "f", "g", "h", "i", "j", "k", "l", "m",
                    "n", "o", "p", "q", "r", "s", "t", "u", "v", "w", "x", "y", "z">>
    IN  [i \in 1..Len(s) |->
            IF \E k \in 1..Len(upper) : upper[k] = s[i]
            THEN small[CHOOSE k \in 1..Len(upper) : upper[k] = s[i]]
            ELSE s[i]]

\* ft in file_type
contains(file_type, ft) ==
    \E i \in 1..(Len(file_type) - Len(ft) + 1) : SubSeq(file_type, i, i + Len(ft) - 1) = ft

\* DocumentProcessor.validate_file that rejects a file of the maximum size
validate_file_below_maximum(size, type) ==
    IF size >= MAX_FILE_SIZE THEN FALSE
    ELSE \E ft \in {<<"p", "d", "f">>, <<"p", "o", "w", "e", "r", "p", "o", "i", "n", "t">>, <<"p", "r", "e", "s", "e", "n", "t", "a", "t", "i", "o", "n">>} : contains(lower(type), ft)

\* DocumentProcessor.validate_file: is_valid
validate_file(size, type) ==
    IF size > MAX_FILE_SIZE THEN FALSE
    ELSE \E ft \in {<<"p", "d", "f">>, <<"p", "o", "w", "e", "r", "p", "o", "i", "n", "t">>, <<"p", "r", "e", "s", "e", "n", "t", "a", "t", "i", "o", "n">>} : contains(lower(type), ft)

\* The MIME types of the files the model uploads
PdfType ==
    <<"a", "p", "p", "l", "i", "c", "a", "t", "i", "o", "n", "/", "p", "d", "f">>
UpperPdfType ==
    <<"A", "p", "p", "l", "i", "c", "a", "t", "i", "o", "n", "/", "P", "D", "F">>
PptType ==
    <<"a", "p", "p", "l", "i", "c", "a", "t", "i", "o", "n", "/", "v", "n", "d", ".",
    "m", "s", "-", "p", "o", "w", "e", "r", "p", "o", "i", "n", "t">>
OdpType ==
    <<"a", "p", "p", "l", "i", "c", "a", "t", "i", "o", "n", "/", "v", "n", "d", ".",
    "o", "a", "s", "i", "s", ".", "o", "p", "e", "n", "d", "o", "c", "u", "m", "e",
    "n", "t", ".", "p", "r", "e", "s", "e", "n", "t", "a", "t", "i", "o", "n">>
WordType ==
    <<"a", "p", "p", "l", "i", "c", "a", "t", "i", "o", "n", "/", "m", "s", "w", "o",
    "r", "d">>
PlainType ==
    <<"t", "e", "x", "t", "/", "p", "l", "a", "i", "n">>
PngType == <<"i", "m", "a", "g", "e", "/", "p", "n", "g">>
NoType == <<>>

MimeTypes ==
    {PdfType, UpperPdfType, PptType, OdpType, WordType, PlainType, PngType, NoType}

\* The sizes of the files the model uploads
FileSizes == {0, 1, MAX_FILE_SIZE - 1, MAX_FILE_SIZE, MAX_FILE_SIZE + 1, 2 * MAX_FILE_SIZE}

\* st.file_uploader has returned a file; the session is at the upload view
InitUpload ==
    /\ InitQuiet
    /\ \E size \in FileSizes, type \in MimeTypes :
          frame = [fn |-> "render_file_upload", pc |-> "uploaded", size |-> size,
                   type |-> type, processed |-> FALSE]

\* render_file_upload down to the analysis button: a file that is not valid is
\* reported and the function returns
ValidateUpload ==
    /\ frame.pc = "uploaded"
    /\ frame' = [frame EXCEPT !.pc = IF validate_file(frame.size, frame.type)
                                     THEN "file_info" ELSE "rejected"]
    /\ UNCHANGED_quiet

\* The analysis button of a later run with the same file: _process_document
\* is invoked
ClickAnalysis ==
    /\ frame.pc = "file_info"
    /\ frame' = [frame EXCEPT !.pc = "processing", !.processed = TRUE]
    /\ UNCHANGED_quiet

NextUpload == ValidateUpload \/ ClickAnalysis

SpecUpload == InitUpload /\ [][NextUpload]_vars

-----------------------------------------------------------------------------
(* Properties of the session state *)

\* The eight views of the specification
EightViews == {"upload", "analysis"} \cup ActionViews

\* A view's flag is raised: Upload while no analysis is completed, an action
\* view by its show flag, Analysis when no action view's flag is raised
ViewFlag(ss, v) ==
    CASE v = "upload"   -> ~ss.analysis_completed
      [] v = "analysis" -> ss.analysis_completed
                           /\ \A a \in ActionViews : ~Flag(ss, ShowKey(a))
      [] OTHER          -> ss.analysis_completed /\ Flag(ss, ShowKey(v))

ActiveViews(ss) == {v \in EightViews : ViewFlag(ss, v)}

\* The view an identifier names
ViewOf(view_name) == IF view_name = "" THEN "analysis" ELSE view_name

\* C1: after analysis has been completed, after every set_view call with a
\* valid identifier exactly one of the eight views is active, and it, the view
\* that is rendered, is the one the last identifier names (Analysis for "").
C1_ExactlyOneView ==
    view_arg \in ActionViews \cup {""} =>
        /\ ActiveViews(session_state[1]) = {ViewOf(view_arg)}
        /\ ActiveView(session_state[1]) = ViewOf(view_arg)

C1_Witness ==
    /\ view_arg = "conclusion"
    /\ session_state[1].show_conclusion
    /\ ~session_state[1].show_assessment
    /\ ActiveView(session_state[1]) = "conclusion"

\* The session has run SessionManager.initialize
Initialized(s) == "analysis_completed" \in DOMAIN session_state[s]

Completed(s) == Flag(session_state[s], "analysis_completed")

\* generated_videos as the session reads it
Videos(s) == heap[session_state[s].generated_videos]

\* The initial state of the analysis of a session
InitialAnalysis(s) ==
    /\ ActiveView(session_state[s]) = "upload"
    /\ ~session_state[s].analysis_completed
    /\ session_state[s].document_text = ""
    /\ session_state[s].analysis_result = ""
    /\ session_state[s].assessment_questions = None
    /\ session_state[s].video_script = ""
    /\ session_state[s].video_scripts_by_level = EmptyDict
    /\ Videos(s) = EmptyDict
    /\ session_state[s].conclusion_content = ""
    /\ session_state[s].quiz_performance = None

\* A step in which session s, logged in before and after, loses its completed
\* analysis: reset_analysis has run
ResetStep(s) == Completed(s) /\ LoggedIn(s)' /\ ~Completed(s)'

Observed(s) ==
    [k \in DOMAIN session_state[s] |->
        IF k = "generated_videos" THEN Videos(s) ELSE session_state[s][k]]

TextArtifacts ==
    {"analysis_result", "assessment_questions", "video_scripts_by_level", "conclusion_content"}

NonEmpty(ss, k) ==
    CASE k = "assessment_questions"   -> ss[k] # None
      [] k = "video_scripts_by_level" -> DOMAIN ss[k] # {}
      [] OTHER                        -> ss[k] # ""

\* Session s keeps its analysis in the step: neither reset_analysis nor logout
KeepsAnalysis(s) == Completed(s) /\ Completed(s)'

TextArtifactsKept(s) ==
    \A k \in TextArtifacts :
        NonEmpty(session_state[s], k) => session_state'[s][k] = session_state[s][k]

VideoEntriesKept(s) ==
    \A level \in DOMAIN Videos(s) :
        level \in DOMAIN Videos(s)' /\ Videos(s)'[level] = Videos(s)[level]

\* C4 as stated: every stored artifact, the entries of generated_videos
\* included, keeps its value once set, until reset_analysis or logout.
C4_ArtifactsImmutable ==
    [][\A s \in Sessions :
          KeepsAnalysis(s) => TextArtifactsKept(s) /\ VideoEntriesKept(s)]_vars

\* C4: analysis_result, assessment_questions, video_scripts_by_level and
\* conclusion_content keep the value they hold, once it is non-empty, under
\* every event until reset_analysis or logout.
C4_TextArtifactsImmutable ==
    [][\A s \in Sessions : KeepsAnalysis(s) => TextArtifactsKept(s)]_vars

C4_Witness ==
    /\ ActiveView(session_state[1]) = "assessment"
    /\ session_state[1].assessment_questions = FullQuiz
    /\ session_state[1].conclusion_content = "text one"
    /\ session_state[1].quiz_performance # None

\* C5: set_view with an identifier outside the enumeration of views, and not
\* the reset identifier, is rejected: it does not change which view is active.
C5_InvalidRejected ==
    [][view_arg' \notin ActionViews \cup {""} =>
          ActiveView(session_state[1])' = ActiveView(session_state[1])]_vars

\* C6: set_view is invoked only while analysis_completed is true, so in every
\* reachable state a raised show flag implies analysis_completed: no action
\* view is active before the analysis completes or after a reset.
C6_ShowImpliesCompleted ==
    \A s \in Sessions :
        \A a \in ActionViews :
            Flag(session_state[s], ShowKey(a)) => Completed(s)

C6_Witness ==
    /\ Completed(1)
    /\ session_state[1].show_video_generation
    /\ "easy" \in DOMAIN Videos(1)

\* The view kinds whose content a generator produces
ViewKinds == {"assessment", "video_script", "conclusion", "personalized_pdf"}

C13_SetViewFrame ==
    [][ /\ heap' = heap
        /\ \A s \in Sessions :
              /\ DOMAIN session_state'[s] = DOMAIN session_state[s]
              /\ \A k \in DOMAIN session_state[s] :
                    ~StartsWithShow(k) => session_state'[s][k] = session_state[s][k] ]_vars

C13_Witness ==
    /\ view_arg = "assessment"
    /\ session_state[1].show_assessment
    /\ session_state[1].analysis_result = "text one"
    /\ session_state[1].conclusion_content = "text two"
    /\ session_state[1].selected_language = "Hindi"
    /\ session_state[1].analysis_completed

\* The artifacts that are displayed through display_translated_content
TranslatedArtifacts == {"analysis_result", "video_scripts_by_level", "conclusion_content"}

\* The step is a change of the selected language of session s
LanguageChanged(s) ==
    /\ Initialized(s) /\ Initialized(s)'
    /\ session_state'[s].selected_language # session_state[s].selected_language

\* C14: translation never changes a stored artifact.  An event of a session
\* whose script run displays artifacts, in whichever language, leaves each of
\* analysis_result, video_scripts_by_level and conclusion_content that holds a
\* value as it is; and a change of the language leaves the active view, every
\* stored text artifact, every entry of generated_videos, the document text
\* and the quiz record as they are.
C14_TranslationKeepsArtifacts ==
    [][\A s \in Sessions :
          /\ (actor' = s /\ KeepsAnalysis(s) /\ shown' # EmptyDict) =>
                \A k \in TranslatedArtifacts :
                    NonEmpty(session_state[s], k) => session_state'[s][k] = session_state[s][k]
          /\ LanguageChanged(s) =>
                /\ ActiveView(session_state[s])' = ActiveView(session_state[s])
                /\ TextArtifactsKept(s)
                /\ VideoEntriesKept(s)
                /\ session_state'[s].document_text = session_state[s].document_text
                /\ session_state'[s].quiz_performance = session_state[s].quiz_performance
                /\ session_state'[s].analysis_completed = session_state[s].analysis_completed
      ]_vars

\* The conclusion "text one" is stored and the page shows its Hindi translation
C14_Witness ==
    /\ session_state[1].logged_in
    /\ session_state[1].selected_language = "Hindi"
    /\ session_state[1].language_code = "hi"
    /\ ActiveView(session_state[1]) = "conclusion"
    /\ session_state[1].conclusion_content = "text one"
    /\ "conclusion_content" \in DOMAIN shown
    /\ shown["conclusion_content"] = "translated"

\* C15: authentication gates access.  A session that is logged in has, since
\* its last logout, had authenticate_user return success, for the email it is
\* logged in as and with the password that the login table stores for that
\* email; and a session for which that has not happened holds no session
\* state beyond logged_in = False: no default value, document, view flag or
\* artifact, and no generator has run for it.
C15_AuthenticationGates ==
    \A s \in Sessions :
        /\ authenticated[s] # None =>
              \E row \in login_table :
                  row.email = authenticated[s].email /\ row.password = authenticated[s].password
        /\ LoggedIn(s) =>
              /\ authenticated[s] # None
              /\ session_state[s].user_email = authenticated[s].email
        /\ authenticated[s] = None =>
              /\ DOMAIN session_state[s] \subseteq {"logged_in"}
              /\ ~LoggedIn(s)
              /\ gen_done[s] = {}
              /\ gen_again[s] = {}

\* Session 1 has analysed a document and opened a view after the login of ann
C15_Witness ==
    /\ LoggedIn(1)
    /\ authenticated[1] = [email |-> "ann@school.edu", password |-> "secret1"]
    /\ session_state[1].analysis_completed
    /\ session_state[1].show_conclusion
    /\ "conclusion" \in gen_done[1]

\* A step in which session s logs in
LoginStep(s) == ~LoggedIn(s) /\ LoggedIn(s)'

C17_NoAutomaticRetry == retried = {}

\* The conclusion view is open and the one attempt to generate the conclusion
\* has failed
C17_Witness ==
    /\ LoggedIn(1)
    /\ actor = 1
    /\ ActiveView(session_state[1]) = "conclusion"
    /\ session_state[1].conclusion_content = ""
    /\ "conclusion" \notin gen_done[1]
    /\ retried = {}

\* C18: analysis_completed becomes true once per document.  It changes from
\* false to true only in an event whose document analysis succeeded, the
\* first success since the last reset or logout, and the event stores the
\* document text and the analysis; it changes back only by a reset or a
\* logout, which start the history anew; and while it is true the upload view,
\* whose button starts the analysis, is not the active view, and no event
\* starts the document analysis.
C18_CompletedOncePerDocument ==
    [][\A s \in Sessions :
          /\ (~Completed(s) /\ Completed(s)') =>
                /\ "analysis" \notin gen_done[s]
                /\ "analysis" \in gen_done'[s]
                /\ session_state'[s].document_text # ""
                /\ session_state'[s].analysis_result # ""
          /\ (Completed(s) /\ ~Completed(s)') => gen_done'[s] = {}
          /\ Completed(s)' => ("analysis" \in gen_done'[s] /\ View(s)' # "upload")
          /\ "analysis" \notin gen_again'[s]
      ]_vars

\* The analysis "text two" of the session's document has completed
C18_Witness ==
    /\ Completed(1)
    /\ session_state[1].document_text = "document"
    /\ session_state[1].analysis_result = "text two"
    /\ "analysis" \in gen_done[1]
    /\ View(1) = "analysis"

\* The counter of a row, 0 if the table has no such column
CounterOf(row, field) == IF field \in DOMAIN row THEN row[field] ELSE 0

\* C20: the counters of the user's latest ui_interactions row are the numbers
\* of usage actions that have succeeded for the current document: doubts
\* answered, assessments taken, video scripts generated, PDFs generated and
\* videos created.
C20_CountersReflectUsage ==
    \A s \in Sessions :
        (LoggedIn(s) /\ Completed(s)) =>
            LET row == ui_interactions[session_state[s].user_email] IN
            /\ row # None
            /\ row.doubt_sessions = performed["doubts"]
            /\ row.assessments_taken = performed["assessments"]
            /\ row.video_scripts_generated = performed["video_scripts"]
            /\ row.pdfs_generated = performed["pdfs"]
            /\ CounterOf(row, "videos_generated") = performed["videos"]

\* The levels whose generation returned non-empty text
Succeeded(responses) == {level \in Levels : Truthy(responses[level])}

\* C21: generate_multi_level_video_scripts attempts easy, medium, hard in that
\* order, going on after a level that failed; when it returns, its result
\* holds exactly the levels whose generation returned non-empty text, each
\* with that text, and it is None if and only if no level succeeded.  The
\* function that the handlers of the session call computes the same result.
C21_ScriptsPerLevel ==
    /\ \A k \in 1..Len(frame.attempted) : frame.attempted[k] = difficulty_levels[k]
    /\ frame.returned =>
          /\ frame.attempted = <<"easy", "medium", "hard">>
          /\ (frame.result = None) <=> (Succeeded(frame.responses) = {})
          /\ frame.result # None =>
                /\ DOMAIN frame.result = Succeeded(frame.responses)
                /\ \A level \in DOMAIN frame.result :
                      frame.result[level] = frame.responses[level].text
          /\ frame.result = generate_multi_level_video_scripts(frame.responses)

\* easy fails, medium returns the empty text, hard succeeds
C21_Witness ==
    /\ frame.returned
    /\ frame.responses = [easy |-> None, medium |-> Text(""), hard |-> Text("script")]
    /\ frame.result = [hard |-> "script"]

\* The number of dict objects that hold a video of a level
Holding(level) == Cardinality({o \in ObjIds : level \in DOMAIN heap[o]})

\* C22: an entry of generated_videos is written for a level only by a request
\* to generate videos in a session that holds a script of that level, and only
\* if create_video answered with a result for it; such a request writes the
\* entries of exactly the selected levels that were created: a level whose
\* creation failed keeps the entry it had, or none, and the levels after it are
\* still attempted.
C22_VideosWrittenOnSuccess ==
    [][/\ \A level \in Levels :
            Holding(level)' > Holding(level) =>
                \E s \in Sessions, selected \in SelectionsTried :
                    \E created \in SUBSET selected :
                        /\ GenerateVideos(s, selected, created)
                        /\ level \in created
                        /\ level \in DOMAIN session_state[s].video_scripts_by_level
       /\ \A s \in Sessions, selected \in SelectionsTried :
            \A created \in SUBSET selected :
                GenerateVideos(s, selected, created) =>
                    /\ DOMAIN Videos(s)' = DOMAIN Videos(s) \cup created
                    /\ \A level \in Levels \ created :
                          level \in DOMAIN Videos(s) => Videos(s)'[level] = Videos(s)[level]
      ]_vars

\* The creation of the easy video has failed and the medium video, requested
\* with it, has been created
C22_Witness ==
    /\ LoggedIn(1)
    /\ actor = 1
    /\ View(1) = "video_generation"
    /\ {"easy", "medium"} \subseteq DOMAIN session_state[1].video_scripts_by_level
    /\ DOMAIN Videos(1) = {"medium"}

\* quiz_performance of a session; a session that is logged out has none
QuizOf(s) ==
    IF "quiz_performance" \in DOMAIN session_state[s] THEN session_state[s].quiz_performance
    ELSE None

\* C23: a quiz_performance that is not None has total = 2, a score from 0 to
\* total, percentage = 100 * score / total, and the level "Good" if the
\* percentage is at least 50, "Needs Improvement" otherwise.  It gets a value
\* only in the submission of the assessment form, and goes back to None only
\* in a reset of the analysis or a logout.
C23_QuizPerformance ==
    [][\A s \in Sessions :
          LET before == QuizOf(s)
              after  == QuizOf(s)'
          IN  /\ after # None =>
                    /\ after.total = 2
                    /\ after.score \in 0..after.total
                    /\ after.percentage * after.total = 100 * after.score
                    /\ after.level \in {"Good", "Needs Improvement"}
                    /\ (after.level = "Good") <=> (after.percentage >= 50)
              /\ (after # None /\ after # before) =>
                    \E answers \in Answers : SubmitAssessment(s, answers)
              /\ (before # None /\ after = None) => (NewAnalysis(s) \/ Logout(s))
      ]_vars

\* One of the two answers was right: 50 percent, which is "Good"
C23_Witness ==
    /\ QuizOf(1) # None
    /\ QuizOf(1).score = 1
    /\ QuizOf(1).percentage = 50
    /\ QuizOf(1).level = "Good"

\* C24: in a session whose analysis_completed is true, document_text and
\* analysis_result are not empty.
C24_CompletedHasTextAndAnalysis ==
    \A s \in Sessions :
        Completed(s) =>
            /\ session_state[s].document_text # ""
            /\ session_state[s].analysis_result # ""

\* The analysis "text one" of the document has completed and a view is open
C24_Witness ==
    /\ Completed(1)
    /\ session_state[1].document_text = "document"
    /\ session_state[1].analysis_result = "text one"
    /\ View(1) = "conclusion"

\* What a document-processing attempt may write
ProcessingKeys ==
    {"document_text", "analysis_result", "analysis_completed", "video_scripts_by_level"}

\* C25: a document-processing attempt that fails, because the text extraction
\* returns nothing or because the analysis is not generated, leaves
\* document_text, analysis_result, analysis_completed and
\* video_scripts_by_level as they were, and the upload view active.
C25_FailedProcessingChangesNothing ==
    [][\A s \in Sessions, text \in ExtractResults, analysis \in TextResponses,
         responses \in ScriptResponses :
          (/\ ProcessDocument(s, text, analysis, responses)
           /\ ~Truthy(text) \/ ~Truthy(analysis))
          => /\ \A k \in ProcessingKeys : session_state'[s][k] = session_state[s][k]
             /\ View(s)' = "upload"
      ]_vars

\* C26: the submission of the assessment form completes and stores a
\* quiz_performance record, whatever non-empty question set is stored, a set
\* without question1 or without question2 included.
C26_SubmissionStores ==
    frame.submitted => (~frame.raised /\ frame.quiz_performance # None)

\* The calls of authenticate_user for an account that have returned success
SuccessfulLogins(email) ==
    {s \in Sessions : /\ frame.calls[s].email = email
                      /\ frame.calls[s].result = "Login successful"}

\* C29: n successful authenticate_user calls on an account raise its
\* no_of_time_logged_in by exactly n, however the logins of different
\* sessions interleave; a failed login, with an unknown email or a wrong
\* password, leaves the login table as it is.
C29_LoginsCounted ==
    (\A s \in Sessions : frame.calls[s].pc = "returned") =>
        \A email \in UserEmails :
            frame.no_of_time_logged_in[email] = Cardinality(SuccessfulLogins(email))

\* The file may be processed: at most MAX_FILE_SIZE bytes, and a MIME type
\* that contains pdf, powerpoint or presentation
Acceptable(size, type) ==
    /\ size <= 10485760
    /\ type \in {PdfType, UpperPdfType, PptType, OdpType}

\* C30: _process_document is invoked only for a file of at most MAX_FILE_SIZE
\* bytes (10 MB; a file of exactly that size is accepted) whose MIME type
\* contains pdf, powerpoint or presentation; every other file is rejected, and
\* the rejection leaves the session state as it is.
C30_OnlyValidFilesProcessed ==
    [][/\ frame'.processed => Acceptable(frame.size, frame.type)
       /\ (frame.pc = "uploaded" /\ frame'.pc = "rejected") <=>
              (frame.pc = "uploaded" /\ frame'.pc # "uploaded"
               /\ ~Acceptable(frame.size, frame.type))
       /\ frame'.pc = "rejected" =>
              (session_state' = session_state /\ heap' = heap /\ ~frame'.processed)
      ]_vars

\* A presentation of exactly the maximum size is being processed
C30_Witness ==
    /\ frame.pc = "processing"
    /\ frame.processed
    /\ frame.size = 10485760
    /\ frame.type = OdpType

-----------------------------------------------------------------------------
(* PDFGenerator.create_pdf_from_content: the story of flowables *)

\* Largest length of a generated content string
MaxLen == 6

\* Section indices an image may have been generated for: 0 .. MaxImageSection
MaxImageSection == 1

Chars == {"#", " ", "a", "\n"}

\* str.strip() strips these
Whitespace == {" ", "\n", "\t", "\r"}

\* s.split('\n'): the pieces between newlines; always at least one piece
RECURSIVE SplitFrom(_, _)
SplitFrom(s, cur) ==
    IF s = <<>> THEN <<cur>>
    ELSE IF Head(s) = "\n" THEN <<cur>> \o SplitFrom(Tail(s), <<>>)
    ELSE SplitFrom(Tail(s), Append(cur, Head(s)))

split(s) == SplitFrom(s, <<>>)

RECURSIVE lstrip(_)
lstrip(s) == IF s # <<>> /\ Head(s) \in Whitespace THEN lstrip(Tail(s)) ELSE s

RECURSIVE rstrip(_)
rstrip(s) ==
    IF s # <<>> /\ s[Len(s)] \in Whitespace THEN rstrip(SubSeq(s, 1, Len(s) - 1)) ELSE s

strip(s) == rstrip(lstrip(s))

\* line.startswith(prefix)
startswith(line, prefix) ==
    /\ Len(line) >= Len(prefix)
    /\ SubSeq(line, 1, Len(prefix)) = prefix

\* line[n:]
SliceFrom(line, n) == SubSeq(line, n + 1, Len(line))

Paragraph(text, style) == [kind |-> "Paragraph", text |-> text, style |-> style]
Spacer(width, height)  == [kind |-> "Spacer", width |-> width, height |-> height]
RLImage(path)          == [kind |-> "Image", path |-> path]

title_style      == "CustomTitle"
heading_style    == "CustomHeading"
subheading_style == "CustomSubheading"
body_style       == "CustomBody"

\* "Add text content": the flowables appended for one stripped, non-empty line
TextFlowablesSloppy(line) ==
    IF startswith(line, <<"#">>) THEN <<Paragraph(SliceFrom(line, 2), title_style)>>
    ELSE IF line # <<>> THEN <<Paragraph(line, body_style)>>
    ELSE <<>>

TextFlowables(line) ==
    IF startswith(line, <<"#", " ">>) THEN <<Paragraph(SliceFrom(line, 2), title_style)>>
    ELSE IF startswith(line, <<"#", "#", " ">>) THEN <<Paragraph(SliceFrom(line, 3), heading_style)>>
    ELSE IF startswith(line, <<"#", "#", "#", " ">>) THEN <<Paragraph(SliceFrom(line, 4), subheading_style)>>
    ELSE IF line # <<>> THEN <<Paragraph(line, body_style)>>
    ELSE <<>>

\* "Check if this line starts a new section that has an image"
StartsSection(line) == startswith(line, <<"#", " ">>) \/ startswith(line, <<"#", "#", " ">>)

ImageFlowables(line, current_section, images) ==
    IF StartsSection(line) /\ current_section \in images
    THEN <<RLImage(current_section), Spacer(1, 12)>>
    ELSE <<>>

\* The blank-line branch without its test: the blank line falls through to
\* a body paragraph
BlankFlowablesBody == <<Paragraph(<<>>, body_style)>>

\* The blank-line branch of the loop: one Spacer, then continue
BlankFlowables == <<Spacer(1, 6)>>

\* The loop that appends no Spacer after a Spacer
RECURSIVE StoryLoopCollapsing(_, _, _, _, _)
StoryLoopCollapsing(lines, i, current_section, images, acc) ==
    IF i > Len(lines) THEN acc
    ELSE LET line == strip(lines[i]) IN
         IF line = <<>>
         THEN StoryLoopCollapsing(lines, i + 1, current_section, images,
                                  IF acc # <<>> /\ acc[Len(acc)] = Spacer(1, 6)
                                  THEN acc ELSE acc \o BlankFlowables)
         ELSE StoryLoopCollapsing(lines, i + 1,
                        IF StartsSection(line) THEN current_section + 1 ELSE current_section,
                        images,
                        acc \o ImageFlowables(line, current_section, images)
                            \o TextFlowables(line))

\* for line in lines: ... (the loop, from line i on)
RECURSIVE StoryLoop(_, _, _, _, _)
StoryLoop(lines, i, current_section, images, acc) ==
    IF i > Len(lines) THEN acc
    ELSE LET line == strip(lines[i]) IN
         IF line = <<>>
         THEN StoryLoop(lines, i + 1, current_section, images, acc \o BlankFlowables)
         ELSE StoryLoop(lines, i + 1,
                        IF StartsSection(line) THEN current_section + 1 ELSE current_section,
                        images,
                        acc \o ImageFlowables(line, current_section, images)
                            \o TextFlowables(line))

create_pdf_from_content(text, images) == StoryLoop(split(text), 1, 0, images, <<>>)

\* "# Title\n\n## Section\ntext line\n### Sub\n"
HeadingsExample ==
    <<"#", " ", "T", "i", "t", "l", "e", "\n", "\n",
      "#", "#", " ", "S", "e", "c", "t", "i", "o", "n", "\n",
      "t", "e", "x", "t", " ", "l", "i", "n", "e", "\n",
      "#", "#", "#", " ", "S", "u", "b", "\n">>

\* "#NoSpace" and "#### x"
NoSpaceExample == <<"#", "N", "o", "S", "p", "a", "c", "e">>
FourHashExample == <<"#", "#", "#", "#", " ", "x">>

Contents ==
    (UNION {[1..n -> Chars] : n \in 0..MaxLen})
        \cup {HeadingsExample, NoSpaceExample, FourHashExample}

ImageSets == SUBSET (0..MaxImageSection)

-----------------------------------------------------------------------------
(* Specification of the story builder alone *)

InitRender ==
    /\ InitSessions
    /\ reexecuted
    /\ content \in Contents
    /\ generated_images \in ImageSets
    /\ story = <<>>
    /\ rpc = "input"
    /\ view_arg = "-"
    /\ usage_tracked = FALSE
    /\ frame = NoFrame

BuildStory ==
    /\ rpc = "input"
    /\ story' = create_pdf_from_content(content, generated_images)
    /\ rpc' = "done"
    /\ UNCHANGED <<session_vars, content, generated_images, view_arg, shown, usage_vars,
                   frame>>

NextRender == BuildStory

SpecRender == InitRender /\ [][NextRender]_vars

-----------------------------------------------------------------------------
(* Specification of the generation of one personalized PDF *)

\* line.lstrip('#')
RECURSIVE lstrip_hash(_)
lstrip_hash(s) == IF s # <<>> /\ Head(s) = "#" THEN lstrip_hash(Tail(s)) ELSE s

\* ContentGenerator._parse_content_sections, the loop from line i on and the
\* statement after it; current: current_section
RECURSIVE SectionsLoop(_, _, _, _)
SectionsLoop(lines, i, current, sections) ==
    LET closed == IF current.content # <<>> THEN Append(sections, current) ELSE sections IN
    IF i > Len(lines) THEN closed
    ELSE LET line == strip(lines[i]) IN
         IF StartsSection(line)
         THEN SectionsLoop(lines, i + 1,
                           [title |-> strip(lstrip_hash(line)), content |-> line \o <<"\n">>],
                           closed)
         ELSE SectionsLoop(lines, i + 1,
                           [current EXCEPT !.content = @ \o line \o <<"\n">>], sections)

parse_content_sections(text) ==
    SectionsLoop(split(text), 1, [title |-> <<>>, content |-> <<>>], <<>>)

\* Largest number of lines of a generated PDF content
MaxLines == 3

\* The lines a generated content is made of: blank, body, title, heading,
\* subheading
ContentLines ==
    {<<>>, <<"a">>, <<"#", " ", "a">>, <<"#", "#", " ", "a">>, <<"#", "#", "#", " ", "a">>}

\* '\n'.join(lines)
RECURSIVE join(_)
join(lines) ==
    IF Len(lines) = 1 THEN lines[1] ELSE lines[1] \o <<"\n">> \o join(Tail(lines))

\* Gemini has returned the content of the PDF, which is not empty
InitPdf ==
    /\ InitQuiet
    /\ \E n \in 1..MaxLines : \E lines \in [1..n -> ContentLines] :
          /\ join(lines) # <<>>
          /\ frame = [fn |-> "render_personalized_pdf", pc |-> "content",
                      content |-> join(lines), sections |-> <<>>, image_sections |-> {},
                      generated_images |-> {}, files |-> {}, story |-> <<>>,
                      pdf_bytes |-> FALSE]

\* ImageGenerator.should_generate_image may hold of a content with words in
\* it: one of them may be a keyword
should_generate_image(text_content) == \E k \in 1..Len(text_content) : text_content[k] = "a"

\* generate_pdf_content from the parse on; with_prompt: the indices of the
\* sections for which should_generate_image holds and an image prompt is
\* generated
GeneratePdfContent ==
    /\ frame.pc = "content"
    /\ LET sections == parse_content_sections(frame.content) IN
       \E with_prompt \in SUBSET {i - 1 : i \in {j \in 1..Len(sections) :
                                        should_generate_image(sections[j].content)}} :
           frame' = [frame EXCEPT !.pc = "content_data", !.sections = sections,
                                  !.image_sections = with_prompt]
    /\ UNCHANGED_quiet

\* create_pdf_from_content, "Clean up temporary image files": the files that
\* exist when the call returns.  doc.build(story) comes before the clean-up,
\* and an exception of it leaves the function by the outer handler
create_pdf_files(files, built) == IF built THEN {} ELSE files

\* PDFGenerator.create_pdf_from_content; generated: the image sections for
\* which generate_image returns the image, each written to a temporary file
\* named after its section index; built: doc.build(story) does not raise
CreatePdf ==
    /\ frame.pc = "content_data"
    /\ \E generated \in SUBSET frame.image_sections, built \in BOOLEAN :
          frame' = [frame EXCEPT !.pc = "returned",
                                 !.generated_images = generated,
                                 !.story = create_pdf_from_content(frame.content, generated),
                                 !.files = create_pdf_files(generated, built),
                                 !.pdf_bytes = built]
    /\ UNCHANGED_quiet

NextPdf == GeneratePdfContent \/ CreatePdf

SpecPdf == InitPdf /\ [][NextPdf]_vars

-----------------------------------------------------------------------------
(* Properties of the story builder *)

\* The render blocks of the specification, as flowables
Title(text)      == Paragraph(text, title_style)
Heading(text)    == Paragraph(text, heading_style)
Subheading(text) == Paragraph(text, subheading_style)
Body(text)       == Paragraph(text, body_style)
SpacerBlock      == Spacer(1, 6)

\* The flowables of the story that are not an image or the Spacer after it
IsImagePart(b) == b.kind = "Image" \/ (b.kind = "Spacer" /\ b.height = 12)
TextBlocks(st) == SelectSeq(st, LAMBDA b : ~IsImagePart(b))

\* The physical lines of a text: a final newline ends the last line, it does
\* not start another one
PhysicalLines(text) ==
    LET pieces == split(text) IN
    IF pieces[Len(pieces)] = <<>> THEN SubSeq(pieces, 1, Len(pieces) - 1) ELSE pieces

\* The block the specification gives a trimmed line
Classified(t) ==
    IF t = <<>> THEN SpacerBlock
    ELSE IF Len(t) >= 2 /\ t[1] = "#" /\ t[2] = " " THEN Title(SubSeq(t, 3, Len(t)))
    ELSE IF Len(t) >= 3 /\ t[1] = "#" /\ t[2] = "#" /\ t[3] = " "
         THEN Heading(SubSeq(t, 4, Len(t)))
    ELSE IF Len(t) >= 4 /\ t[1] = "#" /\ t[2] = "#" /\ t[3] = "#" /\ t[4] = " "
         THEN Subheading(SubSeq(t, 5, Len(t)))
    ELSE Body(t)

\* C8: every trimmed line is classified by its prefix: empty -> Spacer, "# " ->
\* Title, "## " -> Heading, "### " -> Subheading (each with the text after the
\* prefix), anything else, "#NoSpace" and "#### x" included -> Body with the
\* whole trimmed line.
C8_Classification ==
    rpc = "done" =>
        LET lines == split(content)
            tb    == TextBlocks(story)
        IN  \A i \in 1..Len(lines) :
                i <= Len(tb) /\ tb[i] = Classified(strip(lines[i]))

C8_Witness ==
    /\ rpc = "done"
    /\ content = FourHashExample
    /\ story = <<Body(FourHashExample)>>

\* C9: the story matches the input lines 1:1 and in order: as many blocks as
\* the text has lines, the i-th block being the block of the i-th line, none
\* added, dropped or reordered (stated for a call without section images).
C9_OneBlockPerLine ==
    (rpc = "done" /\ generated_images = {}) =>
        LET lines == PhysicalLines(content) IN
        /\ Len(story) = Len(lines)
        /\ \A i \in 1..Len(lines) : story[i] = Classified(strip(lines[i]))

\* C10: "# Title\n\n## Section\ntext line\n### Sub\n" yields exactly Title("Title"),
\* Spacer, Heading("Section"), Body("text line"), Subheading("Sub"); a single
\* trailing newline adds no block.
C10_HeadingsExample ==
    (rpc = "done" /\ content = HeadingsExample /\ generated_images = {}) =>
        story = << Title(<<"T", "i", "t", "l", "e">>),
                   SpacerBlock,
                   Heading(<<"S", "e", "c", "t", "i", "o", "n">>),
                   Body(<<"t", "e", "x", "t", " ", "l", "i", "n", "e">>),
                   Subheading(<<"S", "u", "b">>) >>

\* C11: rendering the empty string yields the empty block sequence.
C11_EmptyInput ==
    (rpc = "done" /\ content = <<>>) => story = <<>>

\* A line that is a body line, and a line that is blank
IsBodyLine(l)  == strip(l) # <<>> /\ Classified(strip(l)) = Body(strip(l))
IsBlankLine(l) == strip(l) = <<>>

\* C12: k consecutive blank (empty or whitespace-only) lines between two body
\* lines yield exactly k Spacer blocks between the two Body blocks: blank lines
\* are not collapsed, and no block is a paragraph with empty text.
C12_BlankLineFidelity ==
    rpc = "done" =>
        LET lines == split(content)
            tb    == TextBlocks(story)
        IN  /\ \A p \in 1..Len(tb) : tb[p].kind = "Paragraph" => tb[p].text # <<>>
            /\ \A i, j \in 1..Len(lines) :
                  ( /\ i < j
                    /\ IsBodyLine(lines[i])
                    /\ IsBodyLine(lines[j])
                    /\ \A m \in (i + 1)..(j - 1) : IsBlankLine(lines[m]) )
                  => /\ j <= Len(tb)
                     /\ tb[i] = Body(strip(lines[i]))
                     /\ tb[j] = Body(strip(lines[j]))
                     /\ \A m \in (i + 1)..(j - 1) : tb[m] = SpacerBlock
                     /\ Cardinality({m \in i..j : tb[m] = SpacerBlock}) = j - i - 1

C12_Witness ==
    /\ rpc = "done"
    /\ content = <<"a", "\n", "\n", "\n", "\n", "a">>
    /\ story = <<Body(<<"a">>), SpacerBlock, SpacerBlock, SpacerBlock, Body(<<"a">>)>>

\* The text blocks of the story built for a text, with the images at hand
BlocksOf(text) == TextBlocks(create_pdf_from_content(text, generated_images))

\* C19: the classification is line-local and stateless.  Wherever the content
\* is a + "\n" + b, the text blocks of its story are the text blocks of the
\* story of a followed by those of the story of b; and the i-th text block is
\* the one text block of the story of the i-th line alone.
C19_LineLocal ==
    rpc = "done" =>
        /\ \A p \in 1..Len(content) :
              content[p] = "\n" =>
                  TextBlocks(story) = BlocksOf(SubSeq(content, 1, p - 1))
                                      \o BlocksOf(SubSeq(content, p + 1, Len(content)))
        /\ LET lines == split(content) IN
           /\ Len(TextBlocks(story)) = Len(lines)
           /\ \A i \in 1..Len(lines) : <<TextBlocks(story)[i]>> = BlocksOf(lines[i])

\* "## a\na" with an image for section 0: a heading, then a body line
C19_Witness ==
    /\ rpc = "done"
    /\ content = <<"#", "#", " ", "a", "\n", "a">>
    /\ generated_images = {0}
    /\ story = <<RLImage(0), Spacer(1, 12), Heading(<<"a">>), Body(<<"a">>)>>

\* The positions of the section headings in a story, and the k-th of them
HeadingPositions(st) ==
    {p \in 1..Len(st) : st[p].kind = "Paragraph" /\ st[p].style \in {title_style, heading_style}}

NthHeading(st, k) ==
    {p \in HeadingPositions(st) : Cardinality({q \in HeadingPositions(st) : q <= p}) = k}

\* The number of headings of the content up to the heading of section i
\* (sections count from 0); a section has a heading if its content starts
\* with one
HeadingsUpTo(sections, i) ==
    Cardinality({j \in 1..(i + 1) : StartsSection(sections[j].content)})

\* C27: every section image that was generated is in the story exactly once,
\* immediately before the heading of the section, counted as
\* _parse_content_sections counts the sections, that it was generated for;
\* this for every content, one with text or blank lines before its first
\* heading included.
C27_ImageBeforeItsHeading ==
    frame.pc = "returned" =>
        \A i \in frame.generated_images :
            LET images == {p \in 1..Len(frame.story) : frame.story[p] = RLImage(i)} IN
            /\ Cardinality(images) = 1
            /\ StartsSection(frame.sections[i + 1].content)
            /\ \A p \in images :
                  /\ frame.story[p + 1] = Spacer(1, 12)
                  /\ p + 2 \in NthHeading(frame.story, HeadingsUpTo(frame.sections, i))

\* C28: no temporary file outlives the operation that created it: when
\* create_pdf_from_content has returned, with the PDF or after a failure to
\* build it, the temporary files of its images are deleted.
C28_NoTemporaryFileLeft ==
    frame.pc = "returned" => frame.files = {}

====
